---------------------------- MODULE Spec2Model ----------------------------
(***************************************************************************)
(* A model of blackholeCalc: the four metric classes of                    *)
(* physics/metrics.py, the classifier of physics/classifier.py and the     *)
(* thermodynamics engine of physics/thermodynamics.py, driven by a caller  *)
(* that constructs one model at a time and calls its methods.              *)
(*                                                                         *)
(* Numbers.  A Python/numpy float is modelled as an extended real:         *)
(*   [k |-> "nan"], [k |-> "inf"], [k |-> "ninf"], or the exact value      *)
(*   [k |-> "fin", n, s, e, d, pi]  =  (n + s*sqrt(e)) / d * PI^pi         *)
(* with d > 0, e square-free, s = 0 iff e = 1, gcd(n, s, d) = 1.           *)
(* NaN and the infinities follow IEEE 754 as Python and numpy implement it. *)
(* Finite arithmetic is exact, with two exceptions: the rounding of the    *)
(* Kerr-Newman horizon discriminant where it cancels to zero (see          *)
(* Residues), which decides between a number and NaN; and the range of     *)
(* the floats at the powers analyze takes (see FloatMax), beyond which     *)
(* Python raises OverflowError.  The radii, spins and the other masses of  *)
(* the caller stay far inside the range.                                   *)
(***************************************************************************)
EXTENDS Integers, FiniteSets, Sequences, TLC

VARIABLES bh, op, ret, err

vars == <<bh, op, ret, err>>

(***************************************************************************)
(* Bounds of the model.                                                    *)
(***************************************************************************)
\* masses 1..MaxMass solar masses are the finite positive mass inputs
MaxMass == 2
\* radii are j fifths of the length of one solar mass, j in 1..MaxRadiusStep
MaxRadiusStep == 24

(***************************************************************************)
(* Integer helpers.                                                        *)
(***************************************************************************)
Abs(i) == IF i < 0 THEN -i ELSE i

Sgn(i) == IF i < 0 THEN -1 ELSE IF i > 0 THEN 1 ELSE 0

RECURSIVE Gcd(_, _)
Gcd(i, j) == IF j = 0 THEN i ELSE Gcd(j, i % j)

\* the largest g with g*g dividing i, given that no square below f*f divides i
RECURSIVE SquarePartFrom(_, _)
SquarePartFrom(i, f) ==
    IF f * f > i THEN 1
    ELSE IF i % (f * f) = 0 THEN f * SquarePartFrom(i \div (f * f), f)
    ELSE SquarePartFrom(i, f + 1)

\* the largest f with f*f dividing i (i >= 1)
SquarePart(i) == SquarePartFrom(i, 1 + 1)

(***************************************************************************)
(* Extended reals.                                                         *)
(***************************************************************************)
NaN == [k |-> "nan"]

PosInf == [k |-> "inf"]

NegInf == [k |-> "ninf"]

\* (n + s*sqrt(e)) / d * PI^pi, as it is given
Fin(n, s, e, d, pi) ==
    [k |-> "fin", n |-> n, s |-> s, e |-> e, d |-> d, pi |-> pi]

Zero == Fin(0, 0, 1, 1, 0)

One == Fin(1, 0, 1, 1, 0)

\* the constant numpy.pi
Pi == Fin(1, 0, 1, 1, 1)

\* n, s and d divided by g, which has the sign of d
Lowest(n, s, e, d, pi, g) ==
    Fin(n \div g, s \div g, IF s = 0 THEN 1 ELSE e, d \div g, pi)

\* n / d * PI^pi in normal form; d # 0
Rational(n, d, pi) ==
    IF n = 0 THEN Zero
    ELSE Lowest(n, 0, 1, d, pi,
                Gcd(Abs(n), Abs(d)) * (IF d < 0 THEN -1 ELSE 1))

\* (n + s*sqrt(e)) / d * PI^pi in normal form; d # 0, e >= 1 square-free
Norm(n, s, e, d, pi) ==
    IF e = 1 THEN Rational(n + s, d, pi)
    ELSE IF s = 0 THEN Rational(n, d, pi)
    ELSE Lowest(n, s, e, d, pi,
                Gcd(Gcd(Abs(n), Abs(s)), Abs(d)) * (IF d < 0 THEN -1 ELSE 1))

Rat(n, d) == Norm(n, 0, 1, d, 0)

Num(n) == Rat(n, 1)

IsNum(x) == x.k \in {"nan", "inf", "ninf", "fin"}

IsNaN(x) == x.k = "nan"

\* c * t^j for finite c and t, none of them 0, kept as a product: a high
\* power of a surd has no normal form within the integers of the checker
Product(c, t, j) == [k |-> "prod", c |-> c, t |-> t, j |-> j]

IsFinite(x) == x.k \in {"fin", "prod"}

IsZero(x) == x.k = "fin" /\ x.n = 0 /\ x.s = 0

\* the sign of n + s*sqrt(e), e square-free
SurdSign(n, s, e) ==
    IF s = 0 \/ (n > 0 /\ s > 0) \/ (n < 0 /\ s < 0) THEN Sgn(n)
    ELSE IF n = 0 THEN Sgn(s)
    ELSE Sgn(n) * Sgn(n * n - s * s * e)

RECURSIVE IntPow(_, _)
IntPow(i, j) == IF j = 0 THEN 1 ELSE i * IntPow(i, j - 1)

\* -1, 0 or 1 for a number that is not NaN
RECURSIVE Sign(_)
Sign(x) ==
    CASE x.k = "inf"  -> 1
      [] x.k = "ninf" -> -1
      [] x.k = "fin"  -> SurdSign(x.n, x.s, x.e)
      [] x.k = "prod" -> Sign(x.c) * IntPow(Sign(x.t), x.j)

\* the infinity of sign i; NaN for 0 (0 * inf, 0 / 0)
InfOfSign(i) == IF i = 0 THEN NaN ELSE IF i > 0 THEN PosInf ELSE NegInf

Neg(x) ==
    CASE x.k = "nan"  -> NaN
      [] x.k = "inf"  -> NegInf
      [] x.k = "ninf" -> PosInf
      [] x.k = "fin"  -> Fin(-x.n, -x.s, x.e, x.d, x.pi)

\* x + y over the denominator x.d * yd, where xd = x.d / g and yd = y.d / g
FinAddOver(x, y, xd, yd) ==
    Norm(x.n * yd + y.n * xd, x.s * yd + y.s * xd,
         IF x.s = 0 THEN y.e ELSE x.e, x.d * yd, x.pi)

FinAddReduced(x, y, g) == FinAddOver(x, y, x.d \div g, y.d \div g)

\* two finite numbers of one field Q(sqrt(e)) * PI^pi
FinAdd(x, y) ==
    CASE IsZero(x) -> y
      [] IsZero(y) -> x
      [] ~IsZero(x) /\ ~IsZero(y) /\ x.pi = y.pi
           /\ (x.s = 0 \/ y.s = 0 \/ x.e = y.e) ->
           FinAddReduced(x, y, Gcd(x.d, y.d))

\* (xn + xs*sqrt(e)) / xd times (yn + ys*sqrt(e)) / yd, times PI^pi
FinMulParts(xn, xs, xd, yn, ys, yd, e, pi) ==
    Norm(xn * yn + xs * ys * e, xn * ys + xs * yn, e, xd * yd, pi)

\* g1 divides the numerator of x and the denominator of y, g2 the others
FinMulReduced(x, y, g1, g2) ==
    FinMulParts(x.n \div g1, x.s \div g1, x.d \div g2,
                y.n \div g2, y.s \div g2, y.d \div g1,
                IF x.s = 0 THEN y.e ELSE x.e, x.pi + y.pi)

FinMul(x, y) ==
    CASE IsZero(x) \/ IsZero(y) -> Zero
      [] ~IsZero(x) /\ ~IsZero(y) /\ (x.s = 0 \/ y.s = 0 \/ x.e = y.e) ->
           FinMulReduced(x, y, Gcd(Gcd(Abs(x.n), Abs(x.s)), y.d),
                               Gcd(Gcd(Abs(y.n), Abs(y.s)), x.d))

\* 1 / x for finite x # 0
FinInv(x) ==
    IF x.s = 0 THEN Rational(x.d, x.n, -x.pi)
    ELSE IF x.n = 0 THEN Norm(0, x.d, x.e, x.s * x.e, -x.pi)
    ELSE Norm(x.d * x.n, -(x.d * x.s), x.e, x.n * x.n - x.s * x.s * x.e,
              -x.pi)

Add(x, y) ==
    CASE x.k = "nan" \/ y.k = "nan" -> NaN
      [] x.k = "inf" /\ y.k = "ninf" -> NaN
      [] x.k = "ninf" /\ y.k = "inf" -> NaN
      [] x.k = "inf" /\ y.k \in {"inf", "fin"} -> PosInf
      [] x.k = "ninf" /\ y.k \in {"ninf", "fin"} -> NegInf
      [] x.k = "fin" /\ y.k = "inf" -> PosInf
      [] x.k = "fin" /\ y.k = "ninf" -> NegInf
      [] x.k = "fin" /\ y.k = "fin" -> FinAdd(x, y)

Sub(x, y) == Add(x, Neg(y))

Mul(x, y) ==
    CASE x.k = "nan" \/ y.k = "nan" -> NaN
      [] x.k # "nan" /\ y.k # "nan" /\ (x.k # "fin" \/ y.k # "fin") ->
           InfOfSign(Sign(x) * Sign(y))
      [] x.k = "fin" /\ y.k = "fin" -> FinMul(x, y)

\* numpy division: x / 0 is an infinity or NaN, never an exception
Div(x, y) ==
    CASE x.k = "nan" \/ y.k = "nan" -> NaN
      [] x.k # "nan" /\ y.k \in {"inf", "ninf"} ->
           IF x.k = "fin" THEN Zero ELSE NaN
      [] x.k # "nan" /\ y.k = "fin" /\ IsZero(y) -> InfOfSign(Sign(x))
      [] x.k = "fin" /\ y.k = "fin" /\ ~IsZero(y) -> FinMul(x, FinInv(y))
      [] x.k \in {"inf", "ninf"} /\ y.k = "fin" /\ ~IsZero(y) ->
           InfOfSign(Sign(x) * Sign(y))

Sq(x) == Mul(x, x)

\* x ** j for an integer j >= 1
RECURSIVE Pow(_, _)
Pow(x, j) == IF j = 1 THEN x ELSE Mul(x, Pow(x, j - 1))

\* c * t ** j, in normal form when t is rational
MulPow(c, t, j) ==
    IF c.k = "fin" /\ t.k = "fin" /\ ~IsZero(c) /\ ~IsZero(t) /\ t.s # 0
    THEN Product(c, t, j)
    ELSE Mul(c, Pow(t, j))

\* sqrt(n/d) = fn * sqrt(en * ed) / (fd * ed) for n = fn^2 en, d = fd^2 ed
SqrtParts(n, d, fn, fd) ==
    Norm(0, fn, (n \div (fn * fn)) * (d \div (fd * fd)),
         fd * (d \div (fd * fd)), 0)

\* the square root of the finite x, whose sign is i
SqrtOfSign(x, i) ==
    IF i < 0 THEN NaN
    ELSE IF i = 0 THEN Zero
    ELSE CASE x.s = 0 /\ x.pi = 0 ->
              SqrtParts(x.n, x.d, SquarePart(x.n), SquarePart(x.d))

\* numpy.sqrt: NaN for a negative argument (a warning, not an exception)
Sqrt(x) ==
    CASE x.k = "nan"  -> NaN
      [] x.k = "inf"  -> PosInf
      [] x.k = "ninf" -> NaN
      [] x.k = "fin"  -> SqrtOfSign(x, Sign(x))

\* comparisons: every comparison with NaN is false
Lt(x, y) ==
    /\ x.k # "nan"
    /\ y.k # "nan"
    /\ x # y
    /\ CASE x.k = "ninf" \/ y.k = "inf" -> TRUE
         [] x.k = "inf" \/ y.k = "ninf" -> FALSE
         [] x.k = "fin" /\ y.k = "fin" -> Sign(Sub(y, x)) > 0

Eq(x, y) == x.k # "nan" /\ y.k # "nan" /\ x = y

Leq(x, y) == Lt(x, y) \/ Eq(x, y)

Gt(x, y) == Lt(y, x)

Geq(x, y) == Leq(y, x)

AbsNum(x) == IF x.k # "nan" /\ Sign(x) < 0 THEN Neg(x) ELSE x


(***************************************************************************)
(* maths/constants.py and maths/units.py.  The units of mass, length and   *)
(* time are chosen so that G = 3, c = 2 and M_sun = 4: one solar mass is   *)
(* then 3 units of length, and mass_si_to_geom is not the identity.        *)
(* The remaining constants and the two literals of thermodynamics.py are   *)
(* positive rationals standing for their values in such units.             *)
(***************************************************************************)
PhysicalConstants ==
    [G |-> Num(3), c |-> Num(2), M_sun |-> Num(4), h_bar |-> Rat(1, 3),
     k_b |-> Rat(1, 5), sigma_sb |-> Rat(2, 7), wien_b |-> Rat(3, 2),
     year |-> Num(7)]

\* the literal 6.169e-8 [K] of the Schwarzschild temperature
HawkingCoefficient == Rat(3, 2)

\* the literal 2.098e67 [s] of the Schwarzschild lifetime
LifetimeCoefficient == Num(5)

mass_si_to_geom(mass_kg) ==
    Div(Mul(PhysicalConstants.G, mass_kg), Sq(PhysicalConstants.c))

\* mutant: c in place of c**2
mass_geom_to_si_by_c(mass_m) ==
    Div(Mul(mass_m, PhysicalConstants.c), PhysicalConstants.G)

mass_geom_to_si(mass_m) ==
    Div(Mul(mass_m, Sq(PhysicalConstants.c)), PhysicalConstants.G)

\* one conversion and then the other
round_trip(first, x) ==
    IF first = "mass_si_to_geom" THEN mass_geom_to_si(mass_si_to_geom(x))
    ELSE mass_si_to_geom(mass_geom_to_si(x))

(***************************************************************************)
(* The range of Python floats.                                             *)
(***************************************************************************)
\* sys.float_info.max.  Of the operations on Python floats only ** raises
\* where the result leaves the range (OverflowError: * and / give inf);
\* numpy's ** gives inf
FloatMax == Num(500000000)

\* |y| > FloatMax for a rational y, without the product of the two
BeyondFloatMax(y) ==
    CASE y.s = 0 /\ y.pi = 0 ->
         \/ Abs(y.n) \div y.d > FloatMax.n
         \/ Abs(y.n) \div y.d = FloatMax.n /\ Abs(y.n) % y.d # 0

\* x ** j raises OverflowError; no power of a rational x with |x| <= 1 does
float_pow_overflows(x, j) ==
    /\ IsNum(x)
    /\ x.k = "fin"
    /\ x.s = 0
    /\ Abs(x.n) > x.d
    /\ BeyondFloatMax(Pow(x, j))

(***************************************************************************)
(* Python values that are not numbers, and the exceptions.                 *)
(***************************************************************************)
NotANumber == [k |-> "str"]

None == [k |-> "none"]

NoError == "none"

\* the spec's InvalidParameter: the exceptions validation raises
InvalidParameter == {"ValueError", "TypeError"}

isinstance_number(value) == IsNum(value)

(***************************************************************************)
(* physics/metrics.py: construction.  A constructor yields                 *)
(* [err |-> exception or NoError, obj |-> the instance or None].           *)
(***************************************************************************)
validate_positive_number(value) ==
    IF ~isinstance_number(value) THEN "TypeError"
    ELSE IF Leq(value, Zero) THEN "ValueError"
    ELSE NoError

Raised(e) == [err |-> e, obj |-> None]

Built(o) == [err |-> NoError, obj |-> o]

\* the attributes GeneralRelativityObject.__init__ sets
BaseAttributes(mass_solar, name) ==
    LET mass_kg == Mul(mass_solar, PhysicalConstants.M_sun)
    IN  [mass_solar |-> mass_solar,
         mass_kg    |-> mass_kg,
         M          |-> mass_si_to_geom(mass_kg),
         name       |-> name]

Extend(f, g) == [x \in DOMAIN f \cup DOMAIN g |->
                    IF x \in DOMAIN g THEN g[x] ELSE f[x]]

SchwarzschildMetric(mass_solar) ==
    IF validate_positive_number(mass_solar) # NoError
    THEN Raised(validate_positive_number(mass_solar))
    ELSE Built(Extend(BaseAttributes(mass_solar, "Schwarzschild BH"),
                      [cls |-> "SchwarzschildMetric",
                       spin |-> Zero, charge |-> Zero]))

KerrMetric(mass_solar, spin) ==
    IF validate_positive_number(mass_solar) # NoError
    THEN Raised(validate_positive_number(mass_solar))
    ELSE IF Gt(AbsNum(spin), One) THEN Raised("ValueError")
    ELSE LET b == BaseAttributes(mass_solar, "Kerr BH")
         IN  Built(Extend(b, [cls |-> "KerrMetric", a_star |-> spin,
                              a |-> Mul(spin, b.M), charge |-> Zero]))

ReissnerNordstromMetric(mass_solar, charge) ==
    IF validate_positive_number(mass_solar) # NoError
    THEN Raised(validate_positive_number(mass_solar))
    ELSE IF Gt(AbsNum(charge), One) THEN Raised("ValueError")
    ELSE LET b == BaseAttributes(mass_solar, "Charged BH")
         IN  Built(Extend(b, [cls |-> "ReissnerNordstromMetric",
                              Q_star |-> charge, Q |-> Mul(charge, b.M),
                              spin |-> Zero]))

KerrNewmanMetric(mass_solar, spin, charge) ==
    IF validate_positive_number(mass_solar) # NoError
    THEN Raised(validate_positive_number(mass_solar))
    ELSE IF float_pow_overflows(spin, 1 + 1)
            \/ float_pow_overflows(charge, 1 + 1)
         THEN Raised("OverflowError")
    ELSE IF Gt(Add(Sq(spin), Sq(charge)), One) THEN Raised("ValueError")
    ELSE LET b == BaseAttributes(mass_solar, "Kerr-Newman BH")
         IN  Built(Extend(b, [cls |-> "KerrNewmanMetric",
                              a_star |-> spin, a |-> Mul(spin, b.M),
                              Q_star |-> charge, Q |-> Mul(charge, b.M)]))

\* The floating-point value of M**2 - a**2 - Q**2 where the exact value is 0
\* and neither a nor Q is: a = spin*M, Q = charge*M and the three squares
\* are each rounded, and what is left of the cancellation is a residue of
\* either sign.  With spin 0.6 and charge 0.8 (0.6**2 + 0.8**2 == 1.0, so
\* the constructor accepts them) the residue is 0.0 at mass_solar 1 and
\* -2.98e-08 at mass_solar 10.  Only the sign of the residue is kept: it
\* is a function of the arguments, drawn once when the model is built.  (A
\* positive residue, 2.4e-07 at mass_solar 30, gives the values of a model
\* just short of extremal and is not told apart from 0.)
NegativeResidue == Neg(One)

Residues(o) ==
    IF /\ o # None
       /\ o.cls = "KerrNewmanMetric"
       /\ ~Eq(o.a, Zero)
       /\ ~Eq(o.Q, Zero)
       /\ Eq(Sub(Sub(Sq(o.M), Sq(o.a)), Sq(o.Q)), Zero)
    THEN {Zero, NegativeResidue}
    ELSE {Zero}

Classes == {"SchwarzschildMetric", "KerrMetric", "ReissnerNordstromMetric",
            "KerrNewmanMetric"}

\* the constructor call cls(mass_solar[, spin][, charge])
New(cls, mass_solar, spin, charge) ==
    CASE cls = "SchwarzschildMetric" -> SchwarzschildMetric(mass_solar)
      [] cls = "KerrMetric" -> KerrMetric(mass_solar, spin)
      [] cls = "ReissnerNordstromMetric" ->
           ReissnerNordstromMetric(mass_solar, charge)
      [] cls = "KerrNewmanMetric" -> KerrNewmanMetric(mass_solar, spin, charge)

(***************************************************************************)
(* physics/metrics.py: the methods.  A method yields                       *)
(* [err |-> exception or NoError, val |-> the value returned or None].     *)
(***************************************************************************)
Returns(v) == [err |-> NoError, val |-> v]

Raises(e) == [err |-> e, val |-> None]

Two == Fin(1 + 1, 0, 1, 1, 0)

\* numpy.cos at the angles the caller passes; "pi/2" is the default theta
Thetas == {"pi/2", "pi/3", "0"}

cos(theta) ==
    CASE theta = "pi/2" -> Zero
      [] theta = "pi/3" -> Rat(1, 2)
      [] theta = "0"    -> One

\* mutant: the factor 2.0 is lost
Schwarzschild_event_horizon_M(self) == self.M

Schwarzschild_event_horizon(self) == Mul(Two, self.M)

\* the tuple (self.M + rad, self.M - rad) the other variants return
HorizonPair(M, rad) == <<Add(M, rad), Sub(M, rad)>>

Kerr_event_horizon(self) ==
    HorizonPair(self.M, Sqrt(Sub(Sq(self.M), Sq(self.a))))

ReissnerNordstrom_event_horizon(self) ==
    HorizonPair(self.M, Sqrt(Sub(Sq(self.M), Sq(self.Q))))

\* self.M**2 - self.a**2 - self.Q**2 as the floats give it
KerrNewman_discriminant(self) ==
    Add(Sub(Sub(Sq(self.M), Sq(self.a)), Sq(self.Q)), self.residue)

KerrNewman_event_horizon(self) ==
    HorizonPair(self.M, Sqrt(KerrNewman_discriminant(self)))

Schwarzschild_isco(self, retrograde) == Mul(Num(6), self.M)

\* 3 + Z2 + sign * term of KerrMetric.isco, sign = 1 if retrograde else -1:
\*   a_star is nan:  nan
\*   a_star = 0:     Z1 = 3, Z2 = 3, term = 0: the factor is 6
\*   a_star^2 = 1:   Z1 = 1, Z2 = 2, term = 4: the factor is 1 or 9
\* elsewhere the cube roots are irrational and the factor, a number between
\* 1 and 9, is kept as the arguments that determine it
Kerr_isco_factor(a_star, retrograde) ==
    CASE IsNaN(a_star) -> NaN
      [] a_star = Zero -> Num(6)
      [] ~IsNaN(a_star) /\ Sq(a_star) = One ->
           IF retrograde THEN Num(9) ELSE One
      [] OTHER -> [k |-> "isco_factor", a_star |-> a_star,
                   retrograde |-> retrograde]

\* M * factor: kept as a product where the factor is
Kerr_isco_times(M, factor) ==
    IF factor.k # "isco_factor" THEN Mul(M, factor)
    ELSE IF M.k = "fin" THEN [k |-> "isco", M |-> M, factor |-> factor]
    ELSE M

Kerr_isco(self, retrograde) ==
    Kerr_isco_times(self.M, Kerr_isco_factor(self.a_star, retrograde))

ReissnerNordstrom_isco(self, retrograde) ==
    Mul(self.M, Sub(Num(6), Mul(Two, Sq(self.Q_star))))

\* the isco of the Kerr model a constructor call yielded
isco_of_built(res, retrograde) ==
    IF res.err # NoError THEN Raises(res.err)
    ELSE Returns(Kerr_isco(res.obj, retrograde))

\* KerrMetric(self.mass_solar, self.a_star).isco(retrograde)
KerrNewman_isco(self, retrograde) ==
    isco_of_built(KerrMetric(self.mass_solar, self.a_star), retrograde)

isco(self, retrograde) ==
    CASE self.cls = "SchwarzschildMetric" ->
           Returns(Schwarzschild_isco(self, retrograde))
      [] self.cls = "KerrMetric" -> Returns(Kerr_isco(self, retrograde))
      [] self.cls = "ReissnerNordstromMetric" ->
           Returns(ReissnerNordstrom_isco(self, retrograde))
      [] self.cls = "KerrNewmanMetric" -> KerrNewman_isco(self, retrograde)

\* the record identify_type returns: a new dict at every call
TypeRecord(type, properties, singularity, ergosphere) ==
    [Type |-> type, Properties |-> properties, Singularity |-> singularity,
     Ergosphere |-> ergosphere]

identify_type(self) ==
    CASE self.cls = "SchwarzschildMetric" ->
           TypeRecord("Schwarzschild",
                      "Static, Spherically Symmetric, Neutral",
                      "Point-like", "None")
      [] self.cls = "KerrMetric" ->
           TypeRecord("Kerr", "Rotating, Axisymmetric, Neutral",
                      "Ring-like", "Present (Oblate)")
      [] self.cls = "ReissnerNordstromMetric" ->
           TypeRecord("Reissner-Nordstrom",
                      "Static, Spherically Symmetric, Charged",
                      "Point-like (Timelike)", "None")
      [] self.cls = "KerrNewmanMetric" ->
           TypeRecord("Kerr-Newman", "Rotating, Axisymmetric, Charged",
                      "Ring-like", "Present (Complex)")

\* self.M**2 - self.a**2 * np.cos(theta)**2
Kerr_ergosphere_argument(self, theta) ==
    Sub(Sq(self.M), Mul(Sq(self.a), Sq(cos(theta))))

Kerr_ergosphere_radius(self, theta) ==
    Add(self.M, Sqrt(Kerr_ergosphere_argument(self, theta)))

\* self.M**2 - self.a**2 * np.cos(theta)**2 - self.Q**2 as the floats give
\* it: where np.cos(theta)**2 is 1.0 these are the floats of the discriminant
KerrNewman_ergosphere_argument(self, theta) ==
    Add(Sub(Kerr_ergosphere_argument(self, theta), Sq(self.Q)),
        IF Sq(cos(theta)) = One THEN self.residue ELSE Zero)

KerrNewman_ergosphere_radius(self, theta) ==
    Add(self.M, Sqrt(KerrNewman_ergosphere_argument(self, theta)))

\* GeneralRelativityObject.ergosphere_radius, which the spinning variants
\* override
ergosphere_radius(self, theta) ==
    CASE self.cls = "KerrMetric" -> Kerr_ergosphere_radius(self, theta)
      [] self.cls = "KerrNewmanMetric" ->
           KerrNewman_ergosphere_radius(self, theta)
      [] self.cls \in {"SchwarzschildMetric", "ReissnerNordstromMetric"} ->
           None

event_horizon(self) ==
    CASE self.cls = "SchwarzschildMetric" -> Schwarzschild_event_horizon(self)
      [] self.cls = "KerrMetric" -> Kerr_event_horizon(self)
      [] self.cls = "ReissnerNordstromMetric" ->
           ReissnerNordstrom_event_horizon(self)
      [] self.cls = "KerrNewmanMetric" -> KerrNewman_event_horizon(self)

\* 1/sqrt(g) - 1
RedshiftOf(g) == Sub(Div(One, Sqrt(g)), One)

Schwarzschild_g_tt(self, r) == Sub(One, Div(Mul(Two, self.M), r))

Schwarzschild_gravitational_redshift(self, r) ==
    IF Leq(r, Mul(Two, self.M)) THEN PosInf
    ELSE RedshiftOf(Schwarzschild_g_tt(self, r))

\* mutant: the factor 2 of 2Mr is lost
Kerr_g_tt_half(self, r, theta) ==
    LET rho2 == Add(Sq(r), Mul(Sq(self.a), Sq(cos(theta))))
    IN  Sub(One, Div(Mul(self.M, r), rho2))

Kerr_g_tt(self, r, theta) ==
    LET rho2 == Add(Sq(r), Mul(Sq(self.a), Sq(cos(theta))))
    IN  Sub(One, Div(Mul(Mul(Two, self.M), r), rho2))

\* the guard of KerrMetric and ReissnerNordstromMetric:
\* if g_tt <= 0: return np.inf
GuardedRedshiftOf(g) == IF Leq(g, Zero) THEN PosInf ELSE RedshiftOf(g)

Kerr_gravitational_redshift(self, r, theta) ==
    GuardedRedshiftOf(Kerr_g_tt(self, r, theta))

ReissnerNordstrom_val(self, r) ==
    Add(Sub(One, Div(Mul(Two, self.M), r)), Div(Sq(self.Q), Sq(r)))

ReissnerNordstrom_gravitational_redshift(self, r) ==
    GuardedRedshiftOf(ReissnerNordstrom_val(self, r))

\* delta / sigma of the polar approximation
KerrNewman_g_tt(self, r) ==
    LET sigma == Sq(r)
        delta == Add(Add(Sub(Sq(r), Mul(Mul(Two, self.M), r)), Sq(self.a)),
                     Sq(self.Q))
    IN  Div(delta, sigma)

KerrNewman_gravitational_redshift(self, r) ==
    RedshiftOf(KerrNewman_g_tt(self, r))

gravitational_redshift(self, r, theta) ==
    CASE self.cls = "SchwarzschildMetric" ->
           Returns(Schwarzschild_gravitational_redshift(self, r))
      [] self.cls = "KerrMetric" ->
           Returns(Kerr_gravitational_redshift(self, r, theta))
      [] self.cls = "ReissnerNordstromMetric" ->
           Returns(ReissnerNordstrom_gravitational_redshift(self, r))
      [] self.cls = "KerrNewmanMetric" ->
           Returns(KerrNewman_gravitational_redshift(self, r))

Schwarzschild_effective_potential(self, r, L) ==
    Mul(Sub(One, Div(Mul(Two, self.M), r)), Add(One, Div(Sq(L), Sq(r))))

Kerr_effective_potential(self, r, L) ==
    Sub(One, Div(Mul(Two, self.M), r))

ReissnerNordstrom_effective_potential(self, r, L) ==
    Mul(Add(Sub(One, Div(Mul(Two, self.M), r)), Div(Sq(self.Q), Sq(r))),
        Add(One, Div(Sq(L), Sq(r))))

\* mutant: the unsupported operation is reported as a bad argument
KerrNewman_effective_potential_invalid(self, r, L) == Raises("ValueError")

KerrNewman_effective_potential(self, r, L) == Raises("NotImplementedError")

effective_potential(self, r, L) ==
    CASE self.cls = "SchwarzschildMetric" ->
           Returns(Schwarzschild_effective_potential(self, r, L))
      [] self.cls = "KerrMetric" ->
           Returns(Kerr_effective_potential(self, r, L))
      [] self.cls = "ReissnerNordstromMetric" ->
           Returns(ReissnerNordstrom_effective_potential(self, r, L))
      [] self.cls = "KerrNewmanMetric" ->
           KerrNewman_effective_potential(self, r, L)

(***************************************************************************)
(* physics/classifier.py                                                   *)
(***************************************************************************)
\* spin**2 and charge**2 are powers of Python floats
identify(mass, spin, charge) ==
    IF float_pow_overflows(spin, 1 + 1) \/ float_pow_overflows(charge, 1 + 1)
    THEN Raises("OverflowError")
    ELSE
    LET is_stable == Leq(Add(Sq(spin), Sq(charge)), One)
        status == IF is_stable THEN "Stable Event Horizon"
                  ELSE "UNSTABLE (Naked Singularity)"
        mtype ==
            IF Eq(spin, Zero) /\ Eq(charge, Zero) THEN "Schwarzschild"
            ELSE IF ~Eq(spin, Zero) /\ Eq(charge, Zero) THEN "Kerr"
            ELSE IF Eq(spin, Zero) /\ ~Eq(charge, Zero)
                 THEN "Reissner-Nordstrom"
            ELSE "Kerr-Newman"
        desc ==
            IF Eq(spin, Zero) /\ Eq(charge, Zero) THEN "Static, Neutral"
            ELSE IF ~Eq(spin, Zero) /\ Eq(charge, Zero)
                 THEN "Rotating, Neutral"
            ELSE IF Eq(spin, Zero) /\ ~Eq(charge, Zero)
                 THEN "Static, Charged"
            ELSE "Rotating, Charged"
    IN  Returns([Type |-> mtype, Description |-> desc, Status |-> status,
                 Is_Physical |-> is_stable])

(***************************************************************************)
(* physics/thermodynamics.py                                               *)
(***************************************************************************)
\* getattr(bh, 'a', 0)
getattr_a(b) == IF "a" \in DOMAIN b THEN b.a ELSE Zero

\* the base Schwarzschild temperature
T_sch(b) == Mul(HawkingCoefficient, Div(One, b.mass_solar))

\* the surface gravity at the outer horizon r_plus
kappa_geom(b, r_plus) ==
    Div(Sub(r_plus, b.M),
        Mul(Mul(Two, Pi), Add(Sq(r_plus), Sq(getattr_a(b)))))

\* the surface gravity of the Schwarzschild hole of the same mass
kappa_sch(b) == Div(One, Mul(Two, Mul(Two, b.M)))

kappa_ratio(b) == Div(kappa_geom(b, event_horizon(b)[1]), kappa_sch(b))

\* mutant: the correction is applied to every variant with two horizons
T_kelvin_charged(b) ==
    IF b.cls \in {"KerrMetric", "KerrNewmanMetric", "ReissnerNordstromMetric"}
    THEN Mul(T_sch(b), kappa_ratio(b))
    ELSE T_sch(b)

T_kelvin(b) ==
    IF b.cls \in {"KerrMetric", "KerrNewmanMetric"}
    THEN Mul(T_sch(b), kappa_ratio(b))
    ELSE T_sch(b)

\* 4 pi (r_p^2 + a^2)
horizon_area(b, r_p) == Mul(Mul(Num(4), Pi), Add(Sq(r_p), Sq(getattr_a(b))))

area_geom(b) ==
    IF b.cls \in {"KerrMetric", "KerrNewmanMetric", "ReissnerNordstromMetric"}
    THEN horizon_area(b, event_horizon(b)[1])
    ELSE Mul(Mul(Num(16), Pi), Sq(b.M))

S(area) ==
    Div(Mul(Mul(PhysicalConstants.k_b, Pow(PhysicalConstants.c, 3)), area),
        Mul(Mul(Num(4), PhysicalConstants.G), PhysicalConstants.h_bar))

P_watts(area, T) == MulPow(Mul(PhysicalConstants.sigma_sb, area), T, 4)

lambda_peak(T) ==
    IF Gt(T, Zero) THEN Div(PhysicalConstants.wien_b, T) ELSE PosInf

t_sch(b) == Mul(LifetimeCoefficient, Pow(b.mass_solar, 3))

t_sec(b, T) ==
    IF Gt(T, Zero) THEN Mul(t_sch(b), Pow(Div(T_sch(b), T), 2)) ELSE PosInf

\* the dictionary analyze returns, from the temperature and the area
Report(b, T, area) ==
    [Temperature |-> T, Entropy |-> S(area), Luminosity |-> P_watts(area, T),
     PeakWavelength |-> lambda_peak(T),
     Lifetime |-> Div(t_sec(b, T), PhysicalConstants.year)]

\* the powers of Python floats analyze evaluates, event_horizon's included:
\* <<x, j>> for x ** j.  The temperature of KerrMetric and KerrNewmanMetric
\* is a numpy.float64
float_powers(b) ==
    {<<b.mass_solar, 3>>, <<b.M, 1 + 1>>, <<getattr_a(b), 1 + 1>>}
    \cup (IF "Q" \in DOMAIN b THEN {<<b.Q, 1 + 1>>} ELSE {})
    \cup (IF b.cls \in {"KerrMetric", "KerrNewmanMetric"} THEN {}
          ELSE {<<T_sch(b), 4>>})

analyze(b) ==
    IF \E p \in float_powers(b) : float_pow_overflows(p[1], p[1 + 1])
    THEN Raises("OverflowError")
    ELSE Returns(Report(b, T_kelvin(b), area_geom(b)))

(***************************************************************************)
(* visualization/visualizer.py: WaveformSynthesizer.generate_chirp.        *)
(* Times, the ring frequency and the decay are exact rationals.  A         *)
(* fractional power of a positive rational is kept as the root it is, and  *)
(* a strain sample as the arguments that determine it: the value of cos    *)
(* and exp at them is not computed.  The masses are positive floats; the   *)
(* products of generate_chirp are taken within the float range.            *)
(***************************************************************************)
NumSamples == 3000

\* np.linspace(start, stop, num): num samples, both ends included
linspace_without_endpoint(start, stop, num) ==
    [i \in 1..num |->
        Add(start, Mul(Num(i - 1), Div(Sub(stop, start), Num(num))))]

linspace(start, stop, num) ==
    [i \in 1..num |->
        Add(start, Mul(Num(i - 1), Div(Sub(stop, start), Num(num - 1))))]

\* the positive real whose fifth power is x
FifthRoot(x) == [k |-> "root5", of |-> x]

\* x ** (j/5) of a positive float
pow_fifths(x, j) == FifthRoot(Pow(x, j))

\* the quotient of two fifth roots is the fifth root of the quotient
root_div(x, y) == FifthRoot(Div(x.of, y.of))

\* coef * root
Scaled(coef, root) == [k |-> "scaled", coef |-> coef, root |-> root]

M_chirp_solar_of_m1(m1, m2) ==
    root_div(pow_fifths(Mul(m1, m2), 3), pow_fifths(m1, 1))

M_chirp_solar(m1, m2) ==
    root_div(pow_fifths(Mul(m1, m2), 3), pow_fifths(Add(m1, m2), 1))

Mc_sec(M_chirp_solar_) ==
    Scaled(Div(Mul(PhysicalConstants.M_sun, PhysicalConstants.G),
               Pow(PhysicalConstants.c, 3)),
           M_chirp_solar_)

TauFloor == Rat(1, 100000)

FinitePositiveTime(x) == x.k = "fin" /\ Sign(x) > 0

\* np.maximum
maximum(x, y) == IF IsNaN(x) \/ IsNaN(y) THEN NaN ELSE IF Gt(x, y) THEN x ELSE y

tau(t) == [i \in DOMAIN t |-> maximum(Neg(t[i]), TauFloor)]

\* amp * np.cos(phase) of one sample, where
\*   phase = -2.0 * (5.0 * Mc_sec / tau)**(5.0/8.0)
\*   amp = 1e-21 * M_chirp_solar * tau**(-0.25)
\* a tau of zero makes the phase infinite and a negative tau has no
\* fractional power: both give nan
inspiral_sample(M_chirp_solar_, Mc_sec_, tau_) ==
    IF FinitePositiveTime(tau_)
    THEN [k |-> "inspiral", M_chirp_solar |-> M_chirp_solar_,
          Mc_sec |-> Mc_sec_, tau |-> tau_]
    ELSE NaN

inspiral(M_chirp_solar_, Mc_sec_, tau_) ==
    [i \in DOMAIN tau_ |-> inspiral_sample(M_chirp_solar_, Mc_sec_, tau_[i])]

idx_ring(t) == [i \in DOMAIN t |-> Gt(t[i], Zero)]

f_ring(m1, m2) == Mul(Num(250), Div(Num(60), Add(m1, m2)))

decay(m1, m2) == Mul(Rat(4, 1000), Div(Add(m1, m2), Num(60)))

\* seed * np.exp(-t / decay) * np.cos(2 * np.pi * f_ring * t) of one sample
ringdown_sample(seed, t_, decay_, f_ring_) ==
    IF seed = NaN THEN NaN
    ELSE [k |-> "ringdown", seed |-> seed, t |-> t_, decay |-> decay_,
          f_ring |-> f_ring_]

\* the index of h[~idx_ring][-1]: the last sample outside the mask (the
\* first sample, at -0.2, always is)
last_outside(mask) ==
    CHOOSE i \in DOMAIN mask :
        ~mask[i] /\ \A j \in (i + 1)..Len(mask) : mask[j]

\* h[idx_ring] = h_ring
h_with_ring(t, h, mask, seed, decay_, f_ring_) ==
    [i \in DOMAIN h |->
        IF mask[i] THEN ringdown_sample(seed, t[i], decay_, f_ring_)
        ELSE h[i]]

chirp_strain_seeded_by_first(t, h, mask, decay_, f_ring_) ==
    CHOOSE h_ \in {h_with_ring(t, h, mask, seed, decay_, f_ring_) :
                        seed \in {h[1]}} : TRUE

\* the seed h[~idx_ring][-1] is taken once, before the assignment
chirp_strain(t, h, mask, decay_, f_ring_) ==
    CHOOSE h_ \in {h_with_ring(t, h, mask, seed, decay_, f_ring_) :
                        seed \in {h[last_outside(mask)]}} : TRUE

chirp_of(m1, m2, t, M_chirp_solar_) ==
    <<t,
      chirp_strain(t, inspiral(M_chirp_solar_, Mc_sec(M_chirp_solar_), tau(t)),
                   idx_ring(t), decay(m1, m2), f_ring(m1, m2)),
      M_chirp_solar_>>

generate_chirp(m1, m2) ==
    Returns(chirp_of(m1, m2, linspace(Rat(-1, 5), Rat(1, 20), NumSamples),
                     M_chirp_solar(m1, m2)))

(***************************************************************************)
(* The orchestration layer: blackholecalc/physics_models.py,               *)
(* dynamics_engine.py, run_manager.py and api.py.  Its constants G, C and  *)
(* M_SOLAR are those of PhysicalConstants in the units of the model.       *)
(* SPIN_TOLERANCE, 1e-12 in api.py, is a positive rational far below 1.    *)
(***************************************************************************)
physics_models == [G |-> Num(3), C |-> Num(1 + 1), M_SOLAR |-> Num(4)]

SPIN_TOLERANCE == Rat(1, 50)

\* BlackHoleModel.__init__ of a float: the mass is not validated
mass_kg_of(mass_solar) == Mul(mass_solar, physics_models.M_SOLAR)

geometric_mass_of(mass_solar) ==
    Div(Mul(physics_models.G, mass_kg_of(mass_solar)),
        Sq(physics_models.C))

Schwarzschild(mass_solar) ==
    [cls |-> "Schwarzschild", mass_solar |-> mass_solar,
     mass_kg |-> mass_kg_of(mass_solar),
     geometric_mass |-> geometric_mass_of(mass_solar)]

\* a spin beyond 1 is let through (pass)
Kerr(mass_solar, dimensionless_spin) ==
    [cls |-> "Kerr", spin |-> dimensionless_spin, mass_solar |-> mass_solar,
     mass_kg |-> mass_kg_of(mass_solar),
     geometric_mass |-> geometric_mass_of(mass_solar),
     a_parameter |-> Mul(dimensionless_spin, geometric_mass_of(mass_solar))]

\* math.sqrt raises on a negative argument, numpy.sqrt does not
math_sqrt(x) ==
    IF x.k = "ninf" \/ (x.k = "fin" /\ Sign(x) < 0) THEN Raises("ValueError")
    ELSE Returns(Sqrt(x))

root_plus(geometric_mass, root_term) ==
    IF root_term.err # NoError THEN root_term
    ELSE Returns(Add(geometric_mass, root_term.val))

Kerr_get_horizon_radius(self) ==
    IF Gt(AbsNum(self.spin), One) THEN Returns(NaN)
    ELSE IF \/ float_pow_overflows(self.geometric_mass, 1 + 1)
            \/ float_pow_overflows(self.a_parameter, 1 + 1)
         THEN Raises("OverflowError")
    ELSE root_plus(self.geometric_mass,
                   math_sqrt(Sub(Sq(self.geometric_mass),
                                 Sq(self.a_parameter))))

get_horizon_radius(self) ==
    CASE self.cls = "Schwarzschild" ->
         Returns(Mul(Two, self.geometric_mass))
      [] self.cls = "Kerr" -> Kerr_get_horizon_radius(self)

calculate_isco_radius(model) ==
    IF model.cls = "Schwarzschild"
    THEN Returns(Mul(Num(6), model.geometric_mass))
    ELSE Raises("NotImplementedError")

\* the identifier of a run, a random token of no consequence here
run_id == "run_id"

\* inputs and outputs are dictionaries, which keep the order of insertion
RunContext(model_class_name) ==
    [model_class_name |-> model_class_name, inputs |-> <<>>,
     outputs |-> <<>>]

Entry(key, value, unit) == [key |-> key, value |-> value, unit |-> unit]

log_input(run, key, value, unit) ==
    [run EXCEPT !.inputs = Append(@, Entry(key, value, unit))]

log_output(run, key, value, unit) ==
    [run EXCEPT !.outputs = Append(@, Entry(key, value, unit))]

\* the try statement of run_simulation: NotImplementedError alone is caught
log_isco(run, r_isco) ==
    IF r_isco.err = NoError
    THEN Returns(log_output(run, "isco_radius", r_isco.val, "meters"))
    ELSE IF r_isco.err = "NotImplementedError"
    THEN Returns(log_output(run, "isco_radius", None, "NotImplemented"))
    ELSE Raises(r_isco.err)

\* what the call returns (val) and what RunContext.save has written (saved)
persist(run, save_data) ==
    IF run.err # NoError THEN [err |-> run.err, val |-> None, saved |-> None]
    ELSE IF save_data
    THEN [err |-> NoError, val |-> run_id, saved |-> run.val]
    ELSE [err |-> NoError,
          val |-> [id |-> run_id, inputs |-> run.val.inputs,
                   outputs |-> run.val.outputs],
          saved |-> None]

logged_inputs(model, mass_solar, spin) ==
    log_input(log_input(RunContext(model.cls), "mass_solar", mass_solar,
                        "M_sun"),
              "spin", spin, "dimensionless")

compute(run, model, r_horizon) ==
    IF r_horizon.err # NoError THEN Raises(r_horizon.err)
    ELSE log_isco(log_output(run, "horizon_radius", r_horizon.val, "meters"),
                  calculate_isco_radius(model))

run_simulation_of(model, mass_solar, spin, save_data) ==
    persist(compute(logged_inputs(model, mass_solar, spin), model,
                    get_horizon_radius(model)),
            save_data)

run_simulation(mass_solar, spin, save_data) ==
    run_simulation_of(IF Lt(AbsNum(spin), SPIN_TOLERANCE)
                      THEN Schwarzschild(mass_solar)
                      ELSE Kerr(mass_solar, spin),
                      mass_solar, spin, save_data)

(***************************************************************************)
(* The inputs of the caller.                                               *)
(***************************************************************************)
\* a finite mass whose cube is beyond FloatMax (1e103 solar masses, say),
\* while its square, and the square of its M, are not
HugeMass == Num(1000)

MassInputs ==
    {NotANumber, NaN, PosInf, NegInf, HugeMass}
    \cup {Num(i) : i \in -1..MaxMass}

\* the huge mass is given to the variant without a square root: the normal
\* forms the others need at that size do not fit the integers of the checker
MassArgs(cls) ==
    IF cls = "SchwarzschildMetric" THEN MassInputs
    ELSE MassInputs \ {HugeMass}

SpinInputs ==
    {Rat(-11, 10), Num(-1), Rat(-3, 5), Zero, Rat(1, 2), Rat(3, 5),
     Rat(4, 5), One, Rat(11, 10), NaN, PosInf}

ChargeInputs == SpinInputs

\* a finite spin or charge whose square is beyond FloatMax (1e200, say)
HugeSpin == Num(30000)

\* the argument a constructor does not take
Unused == [k |-> "unused"]

SpinArgs(cls) ==
    IF cls \in {"KerrMetric", "KerrNewmanMetric"} THEN SpinInputs ELSE {Unused}

ChargeArgs(cls) ==
    IF cls \in {"ReissnerNordstromMetric", "KerrNewmanMetric"}
    THEN ChargeInputs ELSE {Unused}

\* radii r > 0: multiples of a fifth of the geometric mass of one solar mass
RadiusInputs ==
    {Div(Mul(Num(j), mass_si_to_geom(PhysicalConstants.M_sun)), Num(5)) :
        j \in 1..MaxRadiusStep}

AngularMomentumInputs == {Num(-2), Zero, Num(3)}

\* gravitational_redshift takes theta for KerrMetric alone
NoTheta == "none"

ThetaArgs(cls) == IF cls = "KerrMetric" THEN Thetas ELSE {NoTheta}

\* component masses of a binary, in solar masses
ChirpMassInputs == {One, Rat(3, 1 + 1), Num(30)}

\* positive masses, in kilograms or in metres
UnitInputs == {Rat(1, 3), One, Num(7), Num(1000), PosInf}

\* a finite mass whose geometric mass has a square beyond FloatMax (1e151
\* solar masses, say)
EnormousMass == Num(10000)

\* masses given to the orchestration layer, which validates none
OrchestrationMasses ==
    {Num(-1), Zero, EnormousMass, NaN, PosInf} \cup {Num(i) : i \in 1..MaxMass}

\* spins on both sides of SPIN_TOLERANCE and of 1
OrchestrationSpins ==
    {Rat(-11, 10), Num(-1), Rat(-3, 5), Rat(-1, 100), Zero, Rat(1, 100),
     SPIN_TOLERANCE, Rat(3, 5), One, Rat(11, 10), NaN, PosInf}

\* the spins of a Kerr model built directly: run_simulation builds none
\* below the tolerance, and the square root of such a model has no normal
\* form within the integers of the checker
KerrSpins == {spin \in OrchestrationSpins : ~Lt(AbsNum(spin), SPIN_TOLERANCE)}

Idle == [name |-> "idle"]

(***************************************************************************)
(* The caller: one model at a time; a call leaves its outcome in ret and   *)
(* err until the caller takes it (Return).                                 *)
(***************************************************************************)
Init ==
    /\ bh = None
    /\ op = Idle
    /\ ret = None
    /\ err = NoError

Construct ==
    /\ op = Idle
    /\ bh = None
    /\ \E cls \in Classes :
         \E mass \in MassArgs(cls), spin \in SpinArgs(cls),
            charge \in ChargeArgs(cls) :
            \E res \in {New(cls, mass, spin, charge)} :
                /\ op' = [name |-> "construct", cls |-> cls, mass |-> mass,
                          spin |-> spin, charge |-> charge]
                /\ \E residue \in Residues(res.obj) :
                      bh' = IF res.obj # None /\ cls = "KerrNewmanMetric"
                            THEN Extend(res.obj, [residue |-> residue])
                            ELSE res.obj
                /\ err' = res.err
                /\ ret' = None

\* the model goes out of scope
Discard ==
    /\ op = Idle
    /\ bh # None
    /\ bh' = None
    /\ UNCHANGED <<op, ret, err>>

\* the caller takes the outcome of the last call
Return ==
    /\ op # Idle
    /\ op' = Idle
    /\ ret' = None
    /\ err' = NoError
    /\ UNCHANGED bh

CallEventHorizon ==
    /\ op = Idle
    /\ bh # None
    /\ op' = [name |-> "event_horizon"]
    /\ ret' = event_horizon(bh)
    /\ err' = NoError
    /\ UNCHANGED bh

CallGravitationalRedshift ==
    /\ op = Idle
    /\ bh # None
    /\ \E r \in RadiusInputs, theta \in ThetaArgs(bh.cls) :
         \E res \in {gravitational_redshift(bh, r, theta)} :
             /\ op' = [name |-> "gravitational_redshift", r |-> r,
                       theta |-> theta]
             /\ ret' = res.val
             /\ err' = res.err
    /\ UNCHANGED bh

CallEffectivePotential ==
    /\ op = Idle
    /\ bh # None
    /\ \E r \in RadiusInputs, L \in AngularMomentumInputs :
         \E res \in {effective_potential(bh, r, L)} :
             /\ op' = [name |-> "effective_potential", r |-> r, L |-> L]
             /\ ret' = res.val
             /\ err' = res.err
    /\ UNCHANGED bh

\* BlackHoleClassifier.identify is static: it needs no model
CallIdentify ==
    /\ op = Idle
    /\ \E mass \in MassInputs, spin \in SpinInputs \cup {HugeSpin},
          charge \in ChargeInputs \cup {HugeSpin} :
         \E res \in {identify(mass, spin, charge)} :
             /\ op' = [name |-> "identify", mass |-> mass, spin |-> spin,
                       charge |-> charge]
             /\ ret' = res.val
             /\ err' = res.err
    /\ UNCHANGED bh

\* mutant: the Kerr-Newman isco turns the model itself into the Kerr model
CallIsco_in_place ==
    /\ op = Idle
    /\ bh # None
    /\ \E retrograde \in BOOLEAN :
         \E res \in {isco(bh, retrograde)} :
             /\ op' = [name |-> "isco", retrograde |-> retrograde]
             /\ ret' = res.val
             /\ err' = res.err
    /\ bh' = IF bh.cls = "KerrNewmanMetric"
             THEN KerrMetric(bh.mass_solar, bh.a_star).obj
             ELSE bh

\* UnitManager is static: a mass is converted and converted back
CallRoundTrip ==
    /\ op = Idle
    /\ \E x \in UnitInputs, first \in {"mass_si_to_geom", "mass_geom_to_si"} :
         /\ op' = [name |-> "round_trip", first |-> first, x |-> x]
         /\ ret' = round_trip(first, x)
    /\ err' = NoError
    /\ UNCHANGED bh

CallIsco ==
    /\ op = Idle
    /\ bh # None
    /\ \E retrograde \in BOOLEAN :
         \E res \in {isco(bh, retrograde)} :
             /\ op' = [name |-> "isco", retrograde |-> retrograde]
             /\ ret' = res.val
             /\ err' = res.err
    /\ UNCHANGED bh

CallIdentifyType ==
    /\ op = Idle
    /\ bh # None
    /\ op' = [name |-> "identify_type"]
    /\ ret' = identify_type(bh)
    /\ err' = NoError
    /\ UNCHANGED bh

CallErgosphereRadius ==
    /\ op = Idle
    /\ bh # None
    /\ \E theta \in Thetas :
         /\ op' = [name |-> "ergosphere_radius", theta |-> theta]
         /\ ret' = ergosphere_radius(bh, theta)
    /\ err' = NoError
    /\ UNCHANGED bh

CallAnalyze ==
    /\ op = Idle
    /\ bh # None
    /\ op' = [name |-> "analyze"]
    /\ \E res \in {analyze(bh)} :
         /\ ret' = res.val
         /\ err' = res.err
    /\ UNCHANGED bh

\* WaveformSynthesizer.generate_chirp is static: the caller of
\* examples/gravitional_waves.py builds no model
CallGenerateChirp ==
    /\ op = Idle
    /\ bh = None
    /\ \E m1 \in ChirpMassInputs, m2 \in ChirpMassInputs :
         \E res \in {generate_chirp(m1, m2)} :
             /\ op' = [name |-> "generate_chirp", m1 |-> m1, m2 |-> m2]
             /\ ret' = res.val
             /\ err' = res.err
    /\ UNCHANGED bh

\* BlackHoleCalcAPI.run_simulation builds its own model; main.py calls it
\* once for each spin of a sweep
CallRunSimulation ==
    /\ op = Idle
    /\ bh = None
    /\ \E mass_solar \in OrchestrationMasses, spin \in OrchestrationSpins,
          save_data \in BOOLEAN :
         \E res \in {run_simulation(mass_solar, spin, save_data)} :
             /\ op' = [name |-> "run_simulation", mass_solar |-> mass_solar,
                       spin |-> spin, save_data |-> save_data,
                       saved |-> res.saved]
             /\ ret' = res.val
             /\ err' = res.err
    /\ UNCHANGED bh

\* the Kerr model of physics_models.py is built and asked for its horizon
CallGetHorizonRadius ==
    /\ op = Idle
    /\ bh = None
    /\ \E mass_solar \in OrchestrationMasses, spin \in KerrSpins :
         \E model \in {Kerr(mass_solar, spin)} :
             \E res \in {get_horizon_radius(model)} :
                 /\ op' = [name |-> "get_horizon_radius", model |-> model]
                 /\ ret' = res.val
                 /\ err' = res.err
    /\ UNCHANGED bh

Next ==
    \/ Construct
    \/ CallRunSimulation
    \/ CallGetHorizonRadius
    \/ CallGenerateChirp
    \/ CallRoundTrip
    \/ CallIdentify
    \/ CallAnalyze
    \/ CallEventHorizon
    \/ CallIsco
    \/ CallIdentifyType
    \/ CallErgosphereRadius
    \/ CallGravitationalRedshift
    \/ CallEffectivePotential
    \/ Discard
    \/ Return

Spec == Init /\ [][Next]_vars

(***************************************************************************)
(* What the claims speak of.                                               *)
(***************************************************************************)
\* a finite positive real number
FinitePositive(v) == IsNum(v) /\ v.k = "fin" /\ Sign(v) > 0

\* a finite real number
FiniteNumber(v) == IsNum(v) /\ v.k = "fin"

\* the last call constructed cls, or tried to
Constructing(cls) == op.name = "construct" /\ op.cls = cls

SpinOf(b) == IF "a_star" \in DOMAIN b THEN b.a_star ELSE b.spin

ChargeOf(b) == IF "Q_star" \in DOMAIN b THEN b.Q_star ELSE b.charge

\* a model exists whose mass is finite and positive and whose spin and
\* charge are finite: none of the NaN and infinite arguments got in
ModelOfRealParameters ==
    /\ bh # None
    /\ FinitePositive(bh.mass_solar)
    /\ FiniteNumber(SpinOf(bh))
    /\ FiniteNumber(ChargeOf(bh))

\* the spin and charge arguments of the last construction are in range
ArgumentsInRange ==
    CASE op.cls = "SchwarzschildMetric" -> TRUE
      [] op.cls = "KerrMetric" -> Leq(AbsNum(op.spin), One)
      [] op.cls = "ReissnerNordstromMetric" -> Leq(AbsNum(op.charge), One)
      [] op.cls = "KerrNewmanMetric" ->
           Leq(Add(Sq(op.spin), Sq(op.charge)), One)

(***************************************************************************)
(* C1.  Construction with a mass_solar that is not a finite positive real  *)
(* number (zero, negative, NaN, +infinity, a non-number) fails with an     *)
(* InvalidParameter error and yields no model; construction with a finite  *)
(* positive mass and in-range spin and charge succeeds.                    *)
(* The code compares "value <= 0", which is false of NaN and of +infinity: *)
(* both are accepted, and the formula is violated.                         *)
(***************************************************************************)
C1_InvalidMassRejected ==
    op.name = "construct" =>
        /\ ~FinitePositive(op.mass) => err \in InvalidParameter /\ bh = None
        /\ FinitePositive(op.mass) /\ ArgumentsInRange =>
              err = NoError /\ bh # None

\* a model was built of a mass that is NaN
C1_Witness ==
    /\ op.name = "construct"
    /\ IsNaN(op.mass)
    /\ err = NoError
    /\ bh # None
    /\ IsNaN(bh.M)

\* what the code does hold to: a non-number, zero and the negative masses
\* (-infinity among them) are rejected, every other mass is accepted
C1_RejectsNonPositive ==
    op.name = "construct" /\ ArgumentsInRange =>
        /\ ~IsNum(op.mass) => err = "TypeError" /\ bh = None
        /\ IsNum(op.mass) /\ Leq(op.mass, Zero) =>
              err = "ValueError" /\ bh = None
        /\ IsNum(op.mass) /\ ~Leq(op.mass, Zero) => err = NoError /\ bh # None

(***************************************************************************)
(* C2.  Given a valid mass, construction fails with an InvalidParameter    *)
(* error exactly when the parameters are out of range: KerrMetric iff      *)
(* |spin| > 1, ReissnerNordstromMetric iff |charge| > 1, KerrNewmanMetric  *)
(* iff spin^2 + charge^2 > 1, which covers |spin| > 1 and |charge| > 1     *)
(* one by one; otherwise construction succeeds and yields the model.       *)
(* Violated: the code raises where "... > 1.0" is true, which it is not of *)
(* NaN, so that KerrNewmanMetric accepts a spin of 1.1 beside a charge     *)
(* that is NaN.                                                            *)
(***************************************************************************)
C2_NakedSingularityRejected ==
    op.name = "construct" /\ FinitePositive(op.mass) =>
        /\ err \in InvalidParameter \cup {NoError}
        /\ err = NoError <=> bh # None
        /\ Constructing("SchwarzschildMetric") => err = NoError
        /\ Constructing("KerrMetric") =>
              (err \in InvalidParameter <=> Gt(AbsNum(op.spin), One))
        /\ Constructing("ReissnerNordstromMetric") =>
              (err \in InvalidParameter <=> Gt(AbsNum(op.charge), One))
        /\ Constructing("KerrNewmanMetric") =>
              /\ err \in InvalidParameter <=>
                    Gt(Add(Sq(op.spin), Sq(op.charge)), One)
              /\ Gt(AbsNum(op.spin), One) \/ Gt(AbsNum(op.charge), One) =>
                    err \in InvalidParameter

\* a Kerr-Newman model was built with |spin| > 1
C2_Witness ==
    /\ Constructing("KerrNewmanMetric")
    /\ FinitePositive(op.mass)
    /\ Gt(AbsNum(op.spin), One)
    /\ err = NoError
    /\ bh # None

\* what the code does hold to: the same, of finite spin and charge
C2_OfFiniteSpinAndCharge ==
    /\ op.name = "construct"
    /\ FinitePositive(op.mass)
    /\ op.spin \in {Unused} \cup {x \in SpinInputs : FiniteNumber(x)}
    /\ op.charge \in {Unused} \cup {x \in ChargeInputs : FiniteNumber(x)}
    => C2_NakedSingularityRejected

(***************************************************************************)
(* Redshift and horizons.                                                  *)
(***************************************************************************)
OuterHorizon(b) ==
    IF b.cls = "SchwarzschildMetric" THEN event_horizon(b)
    ELSE event_horizon(b)[1]

InnerHorizon(b) == event_horizon(b)[1 + 1]

\* the call gravitational_redshift(r), theta left at its default
RedshiftAtDefaultTheta ==
    op.name = "gravitational_redshift" /\ op.theta \in {NoTheta, "pi/2"}

\* the g_tt the variant computes at the radius and angle of the last call
g_tt_of_call ==
    CASE bh.cls = "SchwarzschildMetric" -> Schwarzschild_g_tt(bh, op.r)
      [] bh.cls = "KerrMetric" -> Kerr_g_tt(bh, op.r, op.theta)
      [] bh.cls = "ReissnerNordstromMetric" -> ReissnerNordstrom_val(bh, op.r)
      [] bh.cls = "KerrNewmanMetric" -> KerrNewman_g_tt(bh, op.r)

C4_SentinelWhereGttNotPositive ==
    op.name = "gravitational_redshift" /\ Leq(g_tt_of_call, Zero) =>
        err = NoError /\ ret = PosInf

\* Kerr-Newman of finite parameters returned NaN where its g_tt is negative
C4_Witness ==
    /\ op.name = "gravitational_redshift"
    /\ ModelOfRealParameters
    /\ bh.cls = "KerrNewmanMetric"
    /\ Lt(g_tt_of_call, Zero)
    /\ IsNaN(ret)

\* what holds: the three guarded variants return the sentinel
C4_GuardedVariantsReturnSentinel ==
    /\ op.name = "gravitational_redshift"
    /\ bh.cls # "KerrNewmanMetric"
    /\ Leq(g_tt_of_call, Zero)
    => err = NoError /\ ret = PosInf

(***************************************************************************)
(* C5.  For every successfully constructed Kerr, Reissner-Nordstrom or     *)
(* Kerr-Newman model, event_horizon() returns (outer, inner) with          *)
(* outer >= inner >= 0 and outer + inner = 2M, and the gap outer - inner   *)
(* shrinks to 0 as spin^2 + charge^2 approaches 1: the gap is              *)
(* 2M sqrt(1 - spin^2 - charge^2).  Stated of the models of finite         *)
(* parameters, so that a violation owes nothing to C1 and C2.              *)
(* Violated: a Kerr-Newman model accepted with spin^2 + charge^2 = 1, both *)
(* non-zero, whose discriminant rounds below zero, has the horizons        *)
(* (NaN, NaN).                                                             *)
(***************************************************************************)
HorizonPairOrdered(b) ==
    LET outer == event_horizon(b)[1]
        inner == event_horizon(b)[1 + 1]
        chi   == Add(Sq(SpinOf(b)), Sq(ChargeOf(b)))
    IN  /\ Geq(outer, inner)
        /\ Geq(inner, Zero)
        /\ Eq(Add(outer, inner), Mul(Two, b.M))
        /\ Eq(Sq(Sub(outer, inner)),
              Mul(Mul(Num(4), Sq(b.M)), Sub(One, chi)))

C5_HorizonPairOrdered ==
    /\ op.name = "event_horizon"
    /\ bh.cls # "SchwarzschildMetric"
    /\ ModelOfRealParameters
    => ret = event_horizon(bh) /\ HorizonPairOrdered(bh)

\* event_horizon() of a Kerr-Newman model of finite parameters returned
\* (NaN, NaN)
C5_Witness ==
    /\ op.name = "event_horizon"
    /\ bh.cls = "KerrNewmanMetric"
    /\ ModelOfRealParameters
    /\ ret = <<NaN, NaN>>

\* no rounding residue makes the discriminant of the model negative
NoNegativeResidue(b) ==
    b.cls = "KerrNewmanMetric" => ~Lt(b.residue, Zero)

\* what holds: the same, where the discriminant does not round below zero
C5_WhereNoNegativeResidue ==
    /\ op.name = "event_horizon"
    /\ bh.cls # "SchwarzschildMetric"
    /\ ModelOfRealParameters
    /\ NoNegativeResidue(bh)
    => ret = event_horizon(bh) /\ HorizonPairOrdered(bh)

(***************************************************************************)
(* C6.  For every model that construction accepts, the horizon             *)
(* discriminant M^2 - a^2 - Q^2 (a = spin*M, Q = charge*M) is              *)
(* non-negative, so that event_horizon() never takes the square root of a  *)
(* negative number and returns no NaN, for all four variants.  Stated of   *)
(* the models of finite parameters, so that a violation owes nothing to C1 *)
(* and C2.                                                                 *)
(* Violated: the constructor tests spin**2 + charge**2 > 1.0, the horizon  *)
(* computes M**2 - a**2 - Q**2, and at spin^2 + charge^2 = 1 the second    *)
(* can round below zero where the first does not exceed 1.                 *)
(***************************************************************************)
Discriminant(b) ==
    CASE b.cls = "SchwarzschildMetric" -> Sq(b.M)
      [] b.cls = "KerrMetric" -> Sub(Sq(b.M), Sq(b.a))
      [] b.cls = "ReissnerNordstromMetric" -> Sub(Sq(b.M), Sq(b.Q))
      [] b.cls = "KerrNewmanMetric" -> KerrNewman_discriminant(b)

HorizonValues(b) ==
    IF b.cls = "SchwarzschildMetric" THEN {event_horizon(b)}
    ELSE {event_horizon(b)[1], event_horizon(b)[1 + 1]}

C6_DiscriminantNonNegative ==
    ModelOfRealParameters =>
        /\ Geq(Discriminant(bh), Zero)
        /\ \A h \in HorizonValues(bh) : ~IsNaN(h)

\* a model of finite parameters whose discriminant is negative
C6_Witness ==
    /\ ModelOfRealParameters
    /\ Add(Sq(SpinOf(bh)), Sq(ChargeOf(bh))) = One
    /\ Lt(Discriminant(bh), Zero)

\* what holds: the same, where the discriminant does not round below zero
C6_WhereNoNegativeResidue ==
    ModelOfRealParameters /\ NoNegativeResidue(bh) =>
        /\ Geq(Discriminant(bh), Zero)
        /\ \A h \in HorizonValues(bh) : IsFinite(h)

TypeLabels == {"Schwarzschild", "Kerr", "Reissner-Nordstrom", "Kerr-Newman"}

\* the label of result follows the zero-ness of spin and charge
FourWay(s0, c0, result) ==
    /\ result.Type \in TypeLabels
    /\ result.Type = "Schwarzschild" <=> s0 /\ c0
    /\ result.Type = "Kerr" <=> ~s0 /\ c0
    /\ result.Type = "Reissner-Nordstrom" <=> s0 /\ ~c0
    /\ result.Type = "Kerr-Newman" <=> ~s0 /\ ~c0

C8_ClassifierFourWay ==
    op.name = "identify" =>
        /\ err = NoError
        /\ FourWay(op.spin = Zero, op.charge = Zero, ret)
        /\ \A m \in MassInputs : identify(m, op.spin, op.charge) = Returns(ret)

\* a spin whose square is out of range: identify raises and labels nothing
C8_Witness ==
    /\ op.name = "identify"
    /\ op.spin = HugeSpin
    /\ op.charge = Zero
    /\ err = "OverflowError"
    /\ ret = None

\* spin**2 or charge**2 is out of the range of floats
SquareOverflows(spin, charge) ==
    float_pow_overflows(spin, 1 + 1) \/ float_pow_overflows(charge, 1 + 1)

\* what holds: the four-way decision wherever the squares are in range
C8_WhereSquaresInRange ==
    op.name = "identify" /\ ~SquareOverflows(op.spin, op.charge) =>
        /\ err = NoError
        /\ FourWay(op.spin = Zero, op.charge = Zero, ret)
        /\ \A m \in MassInputs : identify(m, op.spin, op.charge) = Returns(ret)

\* a rotating, charged input was labelled, the mass not even a number
C8_LabelledWithoutMass ==
    /\ op.name = "identify"
    /\ op.mass = NotANumber
    /\ op.spin # Zero
    /\ op.charge # Zero
    /\ err = NoError
    /\ ret.Type = "Kerr-Newman"

(***************************************************************************)
(* C9.  For every mass and every numbers spin and charge, out-of-range     *)
(* ones included, the classifier never raises and returns a record whose   *)
(* Is_Physical is true iff spin^2 + charge^2 <= 1 and whose Status is the  *)
(* stable label iff Is_Physical; classify(m, 0, 0) is physical and         *)
(* classify(m, 1.1, 0) is not, for every m.                                *)
(***************************************************************************)
ValidityOf(spin, charge, result) ==
    /\ DOMAIN result = {"Type", "Description", "Status", "Is_Physical"}
    /\ result.Is_Physical <=> Leq(Add(Sq(spin), Sq(charge)), One)
    /\ result.Status = "Stable Event Horizon" <=> result.Is_Physical
    /\ spin = Zero /\ charge = Zero => result.Is_Physical
    /\ spin = Rat(11, 10) /\ charge = Zero => ~result.Is_Physical

C9_ClassifierValidity ==
    op.name = "identify" =>
        /\ err = NoError
        /\ ValidityOf(op.spin, op.charge, ret)

\* a charge whose square is out of range: identify raises
C9_Witness ==
    /\ op.name = "identify"
    /\ op.spin = One
    /\ op.charge = HugeSpin
    /\ err = "OverflowError"
    /\ ret = None

\* what holds: identify raises exactly where a square is out of range, and
\* returns the record of the claim everywhere else, NaN and infinities
\* included
C9_WhereSquaresInRange ==
    op.name = "identify" =>
        IF SquareOverflows(op.spin, op.charge)
        THEN err = "OverflowError" /\ ret = None
        ELSE err = NoError /\ ValidityOf(op.spin, op.charge, ret)

\* an extremal combination, spin^2 + charge^2 = 1 with both non-zero, is
\* physical
C9_ExtremalIsPhysical ==
    /\ op.name = "identify"
    /\ op.spin # Zero
    /\ op.charge # Zero
    /\ err = NoError
    /\ Add(Sq(op.spin), Sq(op.charge)) = One
    /\ ret.Is_Physical
    /\ ret.Status = "Stable Event Horizon"

(***************************************************************************)
(* C10, as the spec states it.  For every validly constructed model of any *)
(* variant, the extremal ones with spin^2 + charge^2 = 1 included,         *)
(* Thermodynamics.analyze returns entropy, luminosity and lifetime that    *)
(* are all finite and strictly positive.  Stated of the models of finite   *)
(* parameters whose horizon is a number, so that a violation owes nothing  *)
(* to C1, C2 and C6.  Violated: an extremal Kerr or Kerr-Newman model has  *)
(* temperature 0, luminosity 0 and lifetime +infinity.                     *)
(***************************************************************************)
FiniteAndPositive(x) == IsFinite(x) /\ Sign(x) > 0

Extremal(b) ==
    /\ b.cls \in {"KerrMetric", "KerrNewmanMetric"}
    /\ Add(Sq(SpinOf(b)), Sq(ChargeOf(b))) = One

Quantities ==
    {"Temperature", "Entropy", "Luminosity", "PeakWavelength", "Lifetime"}

C11_AnalyzeNeverRaises ==
    /\ op.name = "analyze"
    /\ ModelOfRealParameters
    => /\ err = NoError
       /\ DOMAIN ret = Quantities
       /\ ~Gt(ret.Temperature, Zero) =>
             /\ ret.PeakWavelength = PosInf
             /\ ret.Lifetime = PosInf

\* analyze raised for a model of finite positive mass
C11_Witness ==
    /\ op.name = "analyze"
    /\ ModelOfRealParameters
    /\ err = "OverflowError"
    /\ ret = None

\* C11, what holds: analyze raises nothing but OverflowError, and that
\* exactly where a power of a Python float leaves the range; what it
\* returns has the five quantities and the two sentinels
C11_RaisesOnlyOverflow ==
    op.name = "analyze" =>
        /\ err \in {NoError, "OverflowError"}
        /\ err = "OverflowError" <=>
              \/ float_pow_overflows(bh.mass_solar, 3)
              \/ float_pow_overflows(bh.M, 1 + 1)
        /\ err = NoError =>
              /\ DOMAIN ret = Quantities
              /\ ~Gt(ret.Temperature, Zero) =>
                    /\ ret.PeakWavelength = PosInf
                    /\ ret.Lifetime = PosInf

(***************************************************************************)
(* C12.  For every Schwarzschild model of mass m > 0, analyze returns the  *)
(* temperature 6.169e-8 / m and the lifetime 2.098e67 m^3 in years, so     *)
(* that the model of twice the mass has half the temperature and 8 times   *)
(* the lifetime.                                                           *)
(***************************************************************************)
SchwarzschildAnalyzed ==
    /\ op.name = "analyze"
    /\ bh.cls = "SchwarzschildMetric"
    /\ ModelOfRealParameters

\* analyze of the Schwarzschild model of twice the mass of b
OfTwiceTheMass(b) ==
    analyze(SchwarzschildMetric(Mul(Two, b.mass_solar)).obj)

TemperatureAndLifetimeOf(b, result) ==
    /\ result.Temperature = Div(HawkingCoefficient, b.mass_solar)
    /\ result.Lifetime =
          Div(Mul(LifetimeCoefficient, Pow(b.mass_solar, 3)),
              PhysicalConstants.year)

HalvedAndEightfold(result, twice) ==
    /\ twice.Temperature = Div(result.Temperature, Two)
    /\ twice.Lifetime = Mul(Num(8), result.Lifetime)

C12_SchwarzschildScaling ==
    SchwarzschildAnalyzed =>
        /\ err = NoError
        /\ TemperatureAndLifetimeOf(bh, ret)
        /\ OfTwiceTheMass(bh).err = NoError
        /\ HalvedAndEightfold(ret, OfTwiceTheMass(bh).val)

\* a Schwarzschild model of finite positive mass for which analyze raised
C12_Witness ==
    /\ SchwarzschildAnalyzed
    /\ bh.mass_solar = HugeMass
    /\ err = "OverflowError"

\* C12, what holds: the values and the scaling wherever analyze returns
C12_WhereAnalyzeReturns ==
    SchwarzschildAnalyzed /\ err = NoError =>
        /\ TemperatureAndLifetimeOf(bh, ret)
        /\ OfTwiceTheMass(bh).err = NoError =>
              HalvedAndEightfold(ret, OfTwiceTheMass(bh).val)

(***************************************************************************)
(* C13.  At the extremal limit the two horizons coincide at M, for every   *)
(* mass > 0: Kerr at spin = 1, Reissner-Nordstrom at |charge| = 1 and      *)
(* Kerr-Newman wherever spin^2 + charge^2 = 1.                             *)
(***************************************************************************)
AtExtremalLimit(b) ==
    CASE b.cls = "KerrMetric" -> b.a_star = One
      [] b.cls = "ReissnerNordstromMetric" -> AbsNum(b.Q_star) = One
      [] b.cls = "KerrNewmanMetric" ->
           Add(Sq(b.a_star), Sq(b.Q_star)) = One
      [] b.cls = "SchwarzschildMetric" -> FALSE

ExtremalHorizonCalled ==
    /\ op.name = "event_horizon"
    /\ ModelOfRealParameters
    /\ AtExtremalLimit(bh)

C13_ExtremalHorizonsCoincideAtM ==
    ExtremalHorizonCalled => ret = <<bh.M, bh.M>>

\* a Kerr-Newman model with spin^2 + charge^2 = 1 whose horizons are NaN
C13_Witness ==
    /\ ExtremalHorizonCalled
    /\ bh.cls = "KerrNewmanMetric"
    /\ IsNaN(ret[1])
    /\ IsNaN(ret[1 + 1])

\* C13, what holds: the horizons coincide at M for Kerr, for
\* Reissner-Nordstrom, and for Kerr-Newman where the discriminant did not
\* round below zero
C13_WhereNoNegativeResidue ==
    ExtremalHorizonCalled /\ NoNegativeResidue(bh) => ret = <<bh.M, bh.M>>

(***************************************************************************)
(* C14.  For every mass_solar > 0 the Schwarzschild event_horizon()        *)
(* returns one radius, 2 G (mass_solar M_sun) / c^2.                       *)
(***************************************************************************)
SchwarzschildRadius(mass_solar) ==
    Div(Mul(Mul(Two, PhysicalConstants.G),
            Mul(mass_solar, PhysicalConstants.M_sun)),
        Mul(PhysicalConstants.c, PhysicalConstants.c))

C14_SchwarzschildHorizonIsTwoM ==
    /\ op.name = "event_horizon"
    /\ bh.cls = "SchwarzschildMetric"
    /\ Gt(bh.mass_solar, Zero)
    => /\ err = NoError
       /\ IsNum(ret)
       /\ ret = SchwarzschildRadius(bh.mass_solar)
       /\ bh.mass_kg = Mul(bh.mass_solar, PhysicalConstants.M_sun)
       /\ ret = Mul(Two, bh.M)

\* the horizon of two solar masses: 12 units of length, G = 3, c = 2, M_sun = 4
C14_Witness ==
    /\ op.name = "event_horizon"
    /\ bh.cls = "SchwarzschildMetric"
    /\ bh.mass_solar = Two
    /\ ret = Num(12)


(***************************************************************************)
(* WaveformSynthesizer.generate_chirp                                      *)
(***************************************************************************)
ChirpCalled == op.name = "generate_chirp"

\* C15: for every pair of positive masses generate_chirp returns without
\* error a time sequence and a strain sequence of 3000 samples each, paired
\* index by index, the times strictly increasing from -0.2 s to 0.05 s.
C15_ChirpSequencesPaired ==
    ChirpCalled =>
        /\ err = NoError
        /\ Len(ret[1]) = 3000
        /\ Len(ret[1 + 1]) = 3000
        /\ DOMAIN ret[1] = DOMAIN ret[1 + 1]
        /\ ret[1][1] = Rat(-1, 5)
        /\ ret[1][3000] = Rat(1, 20)
        /\ \A i \in 1..2999 : Lt(ret[1][i], ret[1][i + 1])

\* the call of the test: two masses of 30 solar masses
C15_Witness ==
    /\ ChirpCalled
    /\ op.m1 = Num(30)
    /\ op.m2 = Num(30)
    /\ err = NoError
    /\ Len(ret[1]) = 3000
    /\ Len(ret[1 + 1]) = 3000
    /\ Lt(ret[1][1], ret[1][3000])

\* ((m1*m2)^3 / (m1+m2))^(1/5), which is (m1*m2)^(3/5) / (m1+m2)^(1/5)
ChirpMassFormula(m1, m2) ==
    FifthRoot(Div(Pow(Mul(m1, m2), 3), Add(m1, m2)))

\* C16: for every positive (m1, m2) the chirp mass generate_chirp returns is
\* (m1*m2)^(3/5) / (m1+m2)^(1/5), and it is the chirp mass computed for the
\* masses swapped.
C16_ChirpMassFormulaSymmetric ==
    ChirpCalled =>
        /\ ret[3] = ChirpMassFormula(op.m1, op.m2)
        /\ ret[3] = M_chirp_solar(op.m2, op.m1)

\* unequal masses 1 and 30: the fifth root of 30^3 / 31
C16_Witness ==
    /\ ChirpCalled
    /\ op.m1 = One
    /\ op.m2 = Num(30)
    /\ ret[3] = FifthRoot(Rat(27000, 31))

\* a strain sample that is a finite number
FiniteStrain(x) == x.k \in {"inspiral", "ringdown"}

\* sample i is an inspiral sample: its time is negative, its time argument
\* is -t or the floor 1e-5, at least the floor, and its strain is finite
InspiralSample(t, h, i) ==
    /\ Lt(t[i], Zero)
    /\ FiniteStrain(h[i])
    /\ h[i].k = "inspiral"
    /\ h[i].tau \in {Neg(t[i]), Rat(1, 100000)}
    /\ Geq(h[i].tau, Rat(1, 100000))

\* sample i is the decaying sinusoid at its time, seeded by sample last
RingdownSample(t, h, i, last) ==
    /\ Geq(t[i], Zero)
    /\ FiniteStrain(h[i])
    /\ h[i].k = "ringdown"
    /\ h[i].seed = h[last]
    /\ h[i].t = t[i]

PartitionedAt(t, h, last) ==
    /\ \A i \in 1..last : InspiralSample(t, h, i)
    /\ \A i \in (last + 1)..Len(t) : RingdownSample(t, h, i, last)

ErgosphereCalled == op.name = "ergosphere_radius"

\* M + sqrt(M^2 - a^2 cos^2(theta) - Q^2), Q = 0 for Kerr
ErgosphereFormula(b, theta) ==
    Add(b.M, Sqrt(Sub(Sub(Sq(b.M), Mul(Sq(b.a), Sq(cos(theta)))),
                      IF b.cls = "KerrNewmanMetric" THEN Sq(b.Q) ELSE Zero)))

\* r >= outer for two radii that are M plus a square root each: the roots
\* are compared by their squares
NotInside(M, r, outer) ==
    /\ Geq(Sub(r, M), Zero)
    /\ Geq(Sub(outer, M), Zero)
    /\ Geq(Sq(Sub(r, M)), Sq(Sub(outer, M)))

ErgosphereAsClaimed ==
    /\ ret = None <=>
          bh.cls \in {"SchwarzschildMetric", "ReissnerNordstromMetric"}
    /\ bh.cls \in {"KerrMetric", "KerrNewmanMetric"} =>
          /\ ret = ErgosphereFormula(bh, op.theta)
          /\ NotInside(bh.M, ret, OuterHorizon(bh))
          /\ Sq(cos(op.theta)) = One => Eq(ret, OuterHorizon(bh))

\* C18: ergosphere_radius(theta) is None exactly for Schwarzschild and
\* Reissner-Nordstrom; for every Kerr and Kerr-Newman model of real
\* parameters and every theta it is M + sqrt(M^2 - a^2 cos^2(theta) - Q^2),
\* never smaller than the outer event horizon and equal to it at the poles.
C18_ErgosphereOutsideHorizon ==
    ErgosphereCalled /\ ModelOfRealParameters => ErgosphereAsClaimed

\* a Kerr-Newman model with spin^2 + charge^2 = 1 whose ergosphere radius at
\* the pole is NaN
C18_Witness ==
    /\ ErgosphereCalled
    /\ ModelOfRealParameters
    /\ bh.cls = "KerrNewmanMetric"
    /\ bh.a_star = Rat(3, 5)
    /\ bh.Q_star = Rat(4, 5)
    /\ op.theta = "0"
    /\ IsNaN(ret)

\* C18, what holds: the same, where the discriminant did not round below
\* zero
C18_WhereNoNegativeResidue ==
    ErgosphereCalled /\ ModelOfRealParameters /\ NoNegativeResidue(bh) =>
        ErgosphereAsClaimed

\* an ergosphere strictly outside the horizon: Kerr at spin 3/5, theta pi/3
C18_StrictlyOutside ==
    /\ ErgosphereCalled
    /\ bh.cls = "KerrMetric"
    /\ bh.a_star = Rat(3, 5)
    /\ op.theta = "pi/3"
    /\ NotInside(bh.M, ret, OuterHorizon(bh))
    /\ ret # OuterHorizon(bh)

(***************************************************************************)
(* The methods leave the model as it was built.                            *)
(***************************************************************************)
ModelMethods ==
    {"event_horizon", "isco", "gravitational_redshift", "effective_potential",
     "ergosphere_radius", "identify_type", "analyze"}

\* the outcome of the call o made afresh on the model b
OutcomeOf(b, o) ==
    CASE o.name = "event_horizon" -> Returns(event_horizon(b))
      [] o.name = "isco" -> isco(b, o.retrograde)
      [] o.name = "gravitational_redshift" ->
           gravitational_redshift(b, o.r, o.theta)
      [] o.name = "effective_potential" -> effective_potential(b, o.r, o.L)
      [] o.name = "ergosphere_radius" ->
           Returns(ergosphere_radius(b, o.theta))
      [] o.name = "identify_type" -> Returns(identify_type(b))
      [] o.name = "analyze" -> analyze(b)

\* the outcome in ret and err is the one the same call has when it is made
\* again on the model as it is now
Repeatable(b, o, ret_, err_) ==
    \E out \in {OutcomeOf(b, o)} : ret_ = out.val /\ err_ = out.err

\* C19: neither a call of event_horizon, isco, gravitational_redshift,
\* effective_potential, ergosphere_radius, identify_type or analyze nor the
\* taking of its result changes an attribute of the model, and the call
\* repeated on the model it leaves has the same outcome.
C19_MethodsLeaveModelUnchanged ==
    [][/\ (op.name \in ModelMethods \/ op'.name \in ModelMethods) => bh' = bh
       /\ op'.name \in ModelMethods => Repeatable(bh', op', ret', err')]_vars

\* a Kerr-Newman model of spin 1 after isco(retrograde=True): 9 M, all its
\* attributes in place
C19_Witness ==
    /\ op.name = "isco"
    /\ op.retrograde
    /\ bh.cls = "KerrNewmanMetric"
    /\ bh.a_star = One
    /\ bh.Q_star = Zero
    /\ bh.mass_solar = One
    /\ bh.Q = Zero
    /\ bh.a = bh.M
    /\ ret = Mul(Num(9), bh.M)
    /\ Repeatable(bh, op, ret, err)

KerrNewmanIscoCalled == op.name = "isco" /\ bh.cls = "KerrNewmanMetric"

\* the outcome is that of isco on the Kerr model k of the same mass and spin
IscoOfKerr(k, retrograde, ret_, err_) ==
    /\ k.err = NoError
    /\ k.obj.cls = "KerrMetric"
    /\ err_ = NoError
    /\ ret_ = Kerr_isco(k.obj, retrograde)

\* C21: for every constructed Kerr-Newman model and both orbit directions
\* isco(retrograde) does not raise and is the isco of the Kerr model of the
\* same mass and spin, whatever the charge.
C21_KerrNewmanIscoIsKerrIsco ==
    KerrNewmanIscoCalled =>
        /\ err \notin InvalidParameter
        /\ IscoOfKerr(KerrMetric(bh.mass_solar, bh.a_star), op.retrograde,
                      ret, err)

\* a Kerr-Newman model of spin beyond 1, built with a NaN charge, whose isco
\* raises ValueError
C21_Witness ==
    /\ KerrNewmanIscoCalled
    /\ FinitePositive(bh.mass_solar)
    /\ Gt(AbsNum(bh.a_star), One)
    /\ IsNaN(bh.Q_star)
    /\ err = "ValueError"
    /\ ret = None

\* C21, what holds: the same for models of finite spin and charge
C21_OfFiniteSpinAndCharge ==
    KerrNewmanIscoCalled /\ FiniteNumber(bh.a_star) /\ FiniteNumber(bh.Q_star)
        => IscoOfKerr(KerrMetric(bh.mass_solar, bh.a_star), op.retrograde,
                      ret, err)

\* charge does matter to the model but not to its isco: spin 3/5, charge 4/5
C21_ChargedModel ==
    /\ KerrNewmanIscoCalled
    /\ bh.a_star = Rat(3, 5)
    /\ bh.Q_star = Rat(4, 5)
    /\ err = NoError
    /\ ret = Kerr_isco(KerrMetric(bh.mass_solar, bh.a_star).obj, op.retrograde)

(***************************************************************************)
(* C22: run_simulation degrades gracefully on the unsupported Kerr ISCO.   *)
(***************************************************************************)
RunSimulationCalled == op.name = "run_simulation"

\* the outputs of the run: returned by a dry run, written to disk otherwise
OutputsOfRun == IF op.save_data THEN op.saved.outputs ELSE ret.outputs

SchwarzschildSelected == Lt(AbsNum(op.spin), SPIN_TOLERANCE)

\* horizon_radius is logged first, isco_radius second and last
HorizonBeforeIsco(outputs) ==
    /\ Len(outputs) = 1 + 1
    /\ outputs[1].key = "horizon_radius"
    /\ outputs[1 + 1].key = "isco_radius"

IscoAsClaimed(isco_radius) ==
    IF SchwarzschildSelected
    THEN isco_radius = Entry("isco_radius",
                             Mul(Num(6), geometric_mass_of(op.mass_solar)),
                             "meters")
    ELSE isco_radius = Entry("isco_radius", None, "NotImplemented")

GracefulRun ==
    /\ err = NoError
    /\ HorizonBeforeIsco(OutputsOfRun)
    /\ IscoAsClaimed(OutputsOfRun[1 + 1])
    /\ op.save_data =>
           op.saved.model_class_name =
               IF SchwarzschildSelected THEN "Schwarzschild" ELSE "Kerr"

\* C22: for every numeric mass and spin run_simulation returns normally with
\* horizon_radius and isco_radius in the outputs, the horizon logged before
\* the ISCO; the Schwarzschild model is selected iff |spin| < SPIN_TOLERANCE
\* and then isco_radius = 6 * geometric_mass, otherwise isco_radius is None
\* with unit 'NotImplemented'; so no call of a sweep aborts.
C22_RunSimulationDegradesGracefully == RunSimulationCalled => GracefulRun

\* run_simulation of a rotating model of enormous mass: get_horizon_radius
\* raises OverflowError, which no handler catches
C22_Witness ==
    /\ RunSimulationCalled
    /\ op.mass_solar = EnormousMass
    /\ op.spin = Rat(3, 5)
    /\ err = "OverflowError"
    /\ ret = None
    /\ op.saved = None

\* the square of the geometric mass or of the a parameter is out of range
\* for a spin that selects Kerr and is not beyond 1
HorizonOverflows(mass_solar, spin) ==
    /\ ~Lt(AbsNum(spin), SPIN_TOLERANCE)
    /\ ~Gt(AbsNum(spin), One)
    /\ \/ float_pow_overflows(geometric_mass_of(mass_solar), 1 + 1)
       \/ float_pow_overflows(Mul(spin, geometric_mass_of(mass_solar)), 1 + 1)

\* what holds: the run is graceful unless the horizon overflows, and then
\* the OverflowError reaches the caller
C22_GracefulUnlessHorizonOverflows ==
    RunSimulationCalled =>
        IF HorizonOverflows(op.mass_solar, op.spin)
        THEN err = "OverflowError" /\ ret = None /\ op.saved = None
        ELSE GracefulRun

\* a rotating model whose ISCO is not implemented, logged and returned
C22_KerrRunLogged ==
    /\ RunSimulationCalled
    /\ op.spin = Rat(3, 5)
    /\ op.mass_solar = One
    /\ ~op.save_data
    /\ err = NoError
    /\ ret.outputs[1 + 1] = Entry("isco_radius", None, "NotImplemented")

(***************************************************************************)
(* C23: the Kerr model of the orchestration layer.                         *)
(***************************************************************************)
KerrHorizonCalled == op.name = "get_horizon_radius"

BeyondExtremal(model) == Gt(AbsNum(model.spin), One)

\* M + sqrt(M^2 - a^2), between M and 2 M
KerrHorizonFormula(model, r) ==
    /\ r = Add(model.geometric_mass,
               Sqrt(Sub(Sq(model.geometric_mass), Sq(model.a_parameter))))
    /\ Leq(model.geometric_mass, r)
    /\ Leq(r, Mul(Two, model.geometric_mass))

\* C23: the Kerr model of the orchestration layer is built for every spin;
\* get_horizon_radius never raises, returns NaN exactly when |spin| > 1 and
\* otherwise returns geometric_mass + sqrt(geometric_mass^2 - a^2), a value
\* between geometric_mass and 2 * geometric_mass.
C23_KerrHorizonNeverRaises ==
    KerrHorizonCalled =>
        /\ err = NoError
        /\ IsNaN(ret) <=> BeyondExtremal(op.model)
        /\ ~BeyondExtremal(op.model) => KerrHorizonFormula(op.model, ret)

\* get_horizon_radius of a Kerr model of enormous mass raises OverflowError
C23_Witness ==
    /\ KerrHorizonCalled
    /\ op.model.mass_solar = EnormousMass
    /\ op.model.spin = Rat(3, 5)
    /\ err = "OverflowError"
    /\ ret = None

\* what holds for a finite positive mass, a spin that is not NaN, and
\* squares within the range of floats
C23_OfFinitePositiveMass ==
    KerrHorizonCalled /\ FinitePositive(op.model.mass_solar)
                      /\ ~IsNaN(op.model.spin)
                      /\ ~HorizonOverflows(op.model.mass_solar,
                                           op.model.spin) =>
        /\ err = NoError
        /\ IsNaN(ret) <=> BeyondExtremal(op.model)
        /\ ~BeyondExtremal(op.model) => KerrHorizonFormula(op.model, ret)

\* a NaN spin is not beyond 1, and its horizon is NaN all the same
C23_NaNSpin ==
    /\ KerrHorizonCalled
    /\ IsNaN(op.model.spin)
    /\ op.model.mass_solar = One
    /\ err = NoError
    /\ IsNaN(ret)

\* a negative mass is accepted; its horizon is not between M and 2 M
C23_NegativeMass ==
    /\ KerrHorizonCalled
    /\ op.model.mass_solar = Num(-1)
    /\ op.model.spin = Rat(3, 5)
    /\ err = NoError
    /\ ~KerrHorizonFormula(op.model, ret)

(***************************************************************************)
(* C24: analyze at zero spin and zero charge against Schwarzschild.        *)
(***************************************************************************)
\* analyze was called on Kerr(m, 0) or on Kerr-Newman(m, 0, 0), m > 0
ZeroSpinAnalyzed ==
    /\ op.name = "analyze"
    /\ bh.cls \in {"KerrMetric", "KerrNewmanMetric"}
    /\ FinitePositive(bh.mass_solar)
    /\ Eq(bh.a_star, Zero)
    /\ bh.cls = "KerrNewmanMetric" => Eq(bh.Q_star, Zero)

\* analyze of the Schwarzschild model of the mass of b
OfTheSameMass(b) == analyze(SchwarzschildMetric(b.mass_solar).obj)

SameTemperatureAndLifetime(result, sch) ==
    /\ result.Temperature = sch.Temperature
    /\ result.PeakWavelength = sch.PeakWavelength
    /\ result.Lifetime = sch.Lifetime

\* C24: for every mass m > 0, analyze on Kerr(m, 0) and on
\* Kerr-Newman(m, 0, 0) returns the temperature, the peak wavelength and the
\* lifetime it returns on Schwarzschild(m), and the same entropy.
C24_ZeroSpinReducesToSchwarzschild ==
    ZeroSpinAnalyzed =>
        /\ err = NoError
        /\ OfTheSameMass(bh).err = NoError
        /\ SameTemperatureAndLifetime(ret, OfTheSameMass(bh).val)
        /\ ret.Entropy = OfTheSameMass(bh).val.Entropy

TwoPi == Mul(Two, Pi)

\* the temperature is that of Schwarzschild over 2 pi: kappa_geom carries a
\* factor 1 / (2 pi) that kappa_sch does not
OffByTwoPi(result, sch) ==
    /\ result.Temperature = Div(sch.Temperature, TwoPi)
    /\ result.PeakWavelength = Mul(sch.PeakWavelength, TwoPi)
    /\ result.Lifetime = Mul(sch.Lifetime, Sq(TwoPi))
    /\ result.Entropy = sch.Entropy

\* analyze of Kerr(1, 0): the temperature is not that of Schwarzschild(1)
C24_Witness ==
    /\ ZeroSpinAnalyzed
    /\ bh.cls = "KerrMetric"
    /\ bh.mass_solar = One
    /\ err = NoError
    /\ ret.Temperature # OfTheSameMass(bh).val.Temperature
    /\ ret.Temperature = Div(HawkingCoefficient, TwoPi)

\* what holds: the surface-gravity ratio is 1 / (2 pi) at zero spin and
\* charge, and the entropy coincides
C24_OffByTwoPi ==
    ZeroSpinAnalyzed =>
        /\ err = NoError
        /\ OfTheSameMass(bh).err = NoError
        /\ kappa_ratio(bh) = Div(One, TwoPi)
        /\ OffByTwoPi(ret, OfTheSameMass(bh).val)

\* the same on the Kerr-Newman model of zero spin and zero charge
C24_KerrNewmanOffByTwoPi ==
    /\ ZeroSpinAnalyzed
    /\ bh.cls = "KerrNewmanMetric"
    /\ err = NoError
    /\ OffByTwoPi(ret, OfTheSameMass(bh).val)

(***************************************************************************)
(* C25: the classifier against construction.                               *)
(***************************************************************************)
\* Kerr when charge = 0, Reissner-Nordstrom when spin = 0, Kerr-Newman
\* otherwise
MatchingVariant(spin, charge) ==
    IF Eq(charge, Zero) THEN "KerrMetric"
    ELSE IF Eq(spin, Zero) THEN "ReissnerNordstromMetric"
    ELSE "KerrNewmanMetric"

ValidMasses == {Num(i) : i \in 1..MaxMass}

Constructible(mass, spin, charge) ==
    New(MatchingVariant(spin, charge), mass, spin, charge).err = NoError

ReportedPhysical == err = NoError /\ ret.Is_Physical

\* C25: for every valid mass and every (spin, charge), the matching core
\* variant is constructed if and only if the classifier reports
\* Is_Physical = true for the same (spin, charge); no constructible model is
\* classified as a naked singularity.
C25_ClassifierAgreesWithConstruction ==
    op.name = "identify" =>
        \A mass \in ValidMasses :
            Constructible(mass, op.spin, op.charge) <=> ReportedPhysical

\* a NaN spin: the Kerr model is constructed, and the classifier calls the
\* same spin a naked singularity
C25_Witness ==
    /\ op.name = "identify"
    /\ IsNaN(op.spin)
    /\ op.charge = Zero
    /\ Constructible(One, op.spin, op.charge)
    /\ err = NoError
    /\ ~ret.Is_Physical
    /\ ret.Status = "UNSTABLE (Naked Singularity)"

\* what holds: the two agree for every spin and charge that is not NaN,
\* the infinite and the huge ones included
C25_WhereNeitherIsNaN ==
    op.name = "identify" /\ ~IsNaN(op.spin) /\ ~IsNaN(op.charge) =>
        \A mass \in ValidMasses :
            Constructible(mass, op.spin, op.charge) <=> ReportedPhysical

\* an extremal rotating, charged model is constructed and reported physical
C25_ExtremalAgrees ==
    /\ op.name = "identify"
    /\ op.spin = Rat(3, 5)
    /\ op.charge = Rat(4, 5)
    /\ Constructible(One, op.spin, op.charge)
    /\ ReportedPhysical

\* beyond the bound neither constructs nor is reported physical
C25_BeyondAgrees ==
    /\ op.name = "identify"
    /\ op.spin = Rat(4, 5)
    /\ op.charge = Rat(4, 5)
    /\ ~Constructible(One, op.spin, op.charge)
    /\ ~ReportedPhysical


====
